---- MODULE Spec2Model ----
(***************************************************************************)
(* A model of validate_recipes.py: RecipeValidator walks a directory of    *)
(* recipe JSON files, dispatches each parsed document to a rule set keyed  *)
(* by its 'type' field, collects Error and Warning diagnostics, prints a   *)
(* report and exits with 0 or 1.                                           *)
(*                                                                         *)
(* Text is modelled as a sequence of string tokens (an f-string is the     *)
(* concatenation of its pieces), a line of output as one such sequence.    *)
(***************************************************************************)
EXTENDS Integers, Sequences, FiniteSets, TLC

VARIABLES
    fs,               \* the directory on disk: [exists, files]; never written by the program
    hashseed,         \* the process's string-hash seed: the order in which a set of characters iterates
    pc,               \* position of main(): "start", "loop", "returned", "exited"
    recipe_files,     \* validate_all's local list of files
    idx,              \* position of the for loop over recipe_files (1-based)
    errors,           \* self.errors
    warnings,         \* self.warnings
    validated_files,  \* self.validated_files
    stdout,           \* the lines printed so far
    success,          \* the value validate_all returned
    exit_code,        \* the process exit code, -1 while running
    mark,             \* lengths of errors/warnings when the last validate_recipe_file began
    dispatched,       \* the rule set the last validate_recipe_file invoked, "" if none
    run,              \* 1 in the first execution of the program, 2 in the second
    prev              \* stdout and exit code of the first execution, once it is over

vars == <<fs, hashseed, pc, recipe_files, idx, errors, warnings, validated_files,
          stdout, success, exit_code, mark, dispatched, run, prev>>

(***************************************************************************)
(* JSON values as json.load returns them.  A mapping whose keys are field  *)
(* names is Obj(f), f a record of the fields present (a field may also be  *)
(* recorded as Absent); the 'key' mapping of a crafting recipe, whose keys *)
(* are iterated and measured, is KeyMap(keys), keys the key strings in     *)
(* file order, each spelled as a sequence of characters.  A string that is *)
(* only compared is Str(s); one that is iterated is Chars(cs).             *)
(***************************************************************************)
Absent == [t |-> "absent"]
Null == [t |-> "null"]
Num(n) == [t |-> "num", n |-> n]
Bool(b) == [t |-> "bool", b |-> b]
Str(s) == [t |-> "str", s |-> s]
Chars(cs) == [t |-> "str", cs |-> cs]
List(items) == [t |-> "list", items |-> items]
KeyMap(keys) == [t |-> "dict", keys |-> keys]
Obj(f) == [t |-> "dict", f |-> f]

IsDict(v) == v.t = "dict"
IsList(v) == v.t = "list"
IsBool(v) == v.t = "bool"
IsStr(v) == v.t = "str"
\* isinstance(v, (int, float)): bool is a subclass of int
IsNumber(v) == v.t \in {"num", "bool"}
\* the value of a number in a comparison: False is 0, True is 1
NumValue(v) == IF v.t = "bool" THEN (IF v.b THEN 1 ELSE 0) ELSE v.n
\* k in d, for a mapping d keyed by field names
Has(d, k) == /\ "f" \in DOMAIN d
             /\ k \in DOMAIN d.f
             /\ d.f[k] # Absent
\* d.get(k, {})
GetOrEmpty(d, k) == IF Has(d, k) THEN d.f[k] ELSE KeyMap(<<>>)
\* type(v).__name__
TypeName(v) ==
    CASE v.t = "num" -> "int"
      [] v.t = "bool" -> "bool"
      [] v.t = "null" -> "NoneType"
      [] v.t = "str" -> "str"
      [] v.t = "list" -> "list"
      [] v.t = "dict" -> "dict"

RECURSIVE ReprItems(_)
\* repr(v), as it appears for an element of a list
ReprIn(v) ==
    CASE v.t = "num" -> <<ToString(v.n)>>
      [] v.t = "bool" -> <<IF v.b THEN "True" ELSE "False">>
      [] v.t = "null" -> <<"None">>
      [] v.t = "str" -> <<"'">> \o (IF "s" \in DOMAIN v THEN <<v.s>> ELSE v.cs) \o <<"'">>
      [] v.t = "list" -> <<"[">> \o ReprItems(v.items) \o <<"]">>
      [] v.t = "dict" -> <<"{", "...", "}">>
ReprItems(items) ==
    IF items = <<>> THEN <<>>
    ELSE IF Len(items) = 1 THEN ReprIn(items[1])
    ELSE ReprIn(items[1]) \o <<", ">> \o ReprItems(Tail(items))
\* str(v), as an f-string formats it: a string is inserted without quotes.
\* The entries of a mapping are elided; no input places a mapping where it is formatted.
Repr(v) ==
    IF v.t = "str" THEN (IF "s" \in DOMAIN v THEN <<v.s>> ELSE v.cs) ELSE ReprIn(v)

(***************************************************************************)
(* The validator's collections, threaded through the checks as a record:   *)
(* errors, warnings, exc (the message of an exception in flight, <<>> if   *)
(* none) and ruleset (the rule set invoked).                               *)
(***************************************************************************)
NoExc == <<>>
Raised(st) == st.exc # NoExc
Raise(st, message) == [st EXCEPT !.exc = message]

\* the message replaces the collection instead of being appended to it
AddErrorAssign(st, path, message) ==
    [st EXCEPT !.errors = <<(<<"[ERROR] ", path, ": ">> \o message)>>]

add_error(st, path, message) ==
    [st EXCEPT !.errors = Append(@, <<"[ERROR] ", path, ": ">> \o message)]

add_warning(st, path, message) ==
    [st EXCEPT !.warnings = Append(@, <<"[WARNING] ", path, ": ">> \o message)]

(***************************************************************************)
(* Shared sub-checks.                                                      *)
(***************************************************************************)
validate_result(st, path, result) ==
    IF ~IsDict(result)
    THEN add_error(st, path, <<"Result must be a JSON object">>)
    ELSE LET has_item == Has(result, "item")
             has_fluid == Has(result, "fluid")
             s1 == IF ~(has_item \/ has_fluid)
                   THEN add_error(st, path, <<"Result must have 'item' or 'fluid' field">>)
                   ELSE st
             s2 == IF /\ Has(result, "count")
                      /\ IsNumber(result.f.count)
                      /\ NumValue(result.f.count) <= 0
                   THEN add_error(s1, path, <<"Result count must be positive, got: ">>
                                            \o Repr(result.f.count))
                   ELSE s1
             s3 == IF /\ Has(result, "amount")
                      /\ IsNumber(result.f.amount)
                      /\ NumValue(result.f.amount) <= 0
                   THEN add_error(s2, path, <<"Result amount must be positive, got: ">>
                                            \o Repr(result.f.amount))
                   ELSE s2
         IN s3

RECURSIVE validate_results_loop(_, _, _)
validate_results_loop(st, path, results) ==
    IF results = <<>> THEN st
    ELSE LET result == Head(results)
             s1 == IF ~IsDict(result)
                   THEN add_error(st, path, <<"Result must be a JSON object">>)
                   ELSE validate_result(st, path, result)
         IN validate_results_loop(s1, path, Tail(results))

validate_results(st, path, results) ==
    LET s1 == IF results.items = <<>>
              THEN add_warning(st, path, <<"Results array is empty">>)
              ELSE st
    IN validate_results_loop(s1, path, results.items)

validate_ingredient(st, path, ingredient) ==
    LET has_item == Has(ingredient, "item")
        has_tag == Has(ingredient, "tag")
        has_fluid == Has(ingredient, "fluid")
        s1 == IF ~(has_item \/ has_tag \/ has_fluid)
              THEN add_error(st, path, <<"Ingredient must have 'item', 'tag', or 'fluid' field">>)
              ELSE st
        type_count == (IF has_item THEN 1 ELSE 0) + (IF has_tag THEN 1 ELSE 0)
                      + (IF has_fluid THEN 1 ELSE 0)
    IN IF type_count > 1
       THEN add_warning(s1, path, <<"Ingredient has multiple type fields (item/tag/fluid)">>)
       ELSE s1

RECURSIVE validate_ingredients_loop(_, _, _)
validate_ingredients_loop(st, path, ingredients) ==
    IF ingredients = <<>> THEN st
    ELSE LET ingredient == Head(ingredients)
             s1 == IF ~IsDict(ingredient)
                   THEN add_error(st, path, <<"Ingredient must be a JSON object">>)
                   ELSE validate_ingredient(st, path, ingredient)
         IN validate_ingredients_loop(s1, path, Tail(ingredients))

validate_ingredients(st, path, ingredients) ==
    IF IsList(ingredients)
    THEN LET s1 == IF ingredients.items = <<>>
                   THEN add_warning(st, path, <<"Ingredients array is empty">>)
                   ELSE st
         IN validate_ingredients_loop(s1, path, ingredients.items)
    ELSE IF IsDict(ingredients)
    THEN validate_ingredient(st, path, ingredients)
    ELSE add_error(st, path, <<"Ingredients must be a JSON object or array">>)

(***************************************************************************)
(* Pattern / key cross-check.                                              *)
(***************************************************************************)
\* the characters of one row that are not a space
RowChars(row) == {row.cs[i] : i \in {j \in 1..Len(row.cs) : row.cs[j] # " "}}

\* first loop: used_keys, and one Error per row that is not a string
RECURSIVE used_keys_of(_)
used_keys_of(rows) ==
    IF rows = <<>> THEN {}
    ELSE (IF IsStr(Head(rows)) THEN RowChars(Head(rows)) ELSE {}) \cup used_keys_of(Tail(rows))

RECURSIVE pattern_rows_loop(_, _, _)
pattern_rows_loop(st, path, rows) ==
    IF rows = <<>> THEN st
    ELSE pattern_rows_loop(
             IF ~IsStr(Head(rows))
             THEN add_error(st, path, <<"Pattern row must be a string">>)
             ELSE st,
             path, Tail(rows))

\* iterating a set of characters: the order is the one the process's hash seed gives
RECURSIVE SetOrder(_, _)
SetOrder(seed, S) ==
    IF seed = <<>> THEN <<>>
    ELSE (IF Head(seed) \in S THEN <<Head(seed)>> ELSE <<>>) \o SetOrder(Tail(seed), S)

\* whether "char in key" can be evaluated: a mapping, a string or a list
IsContainer(key) == key.t \in {"dict", "str", "list"}
\* char in key
CharIn(char, key) ==
    CASE key.t = "dict" -> \E i \in 1..Len(key.keys) : key.keys[i] = <<char>>
      [] key.t = "str" -> \E i \in 1..Len(key.cs) : key.cs[i] = char
      [] key.t = "list" -> \E i \in 1..Len(key.items) : key.items[i] = Chars(<<char>>)

\* second loop: every used character must be defined
RECURSIVE undefined_keys_loop(_, _, _, _)
undefined_keys_loop(st, path, chars, key) ==
    IF chars = <<>> THEN st
    ELSE IF ~IsContainer(key)
    THEN Raise(st, <<"argument of type '", TypeName(key), "' is not iterable">>)
    ELSE undefined_keys_loop(
             IF ~CharIn(Head(chars), key)
             THEN add_error(st, path, <<"Pattern uses key '", Head(chars),
                                        "' but it's not defined in 'key' object">>)
             ELSE st,
             path, Tail(chars), key)

\* third loop: every single-character key must be used
RECURSIVE unused_keys_loop(_, _, _, _)
unused_keys_loop(st, path, keys, used_keys) ==
    IF keys = <<>> THEN st
    ELSE LET defined_key == Head(keys)
         IN unused_keys_loop(
                IF Len(defined_key) = 1 /\ defined_key[1] \notin used_keys
                THEN add_warning(st, path, <<"Key '">> \o defined_key
                                           \o <<"' is defined but never used in pattern">>)
                ELSE st,
                path, Tail(keys), used_keys)

validate_pattern(st, seed, path, recipe) ==
    LET pattern == recipe.f.pattern
        key == GetOrEmpty(recipe, "key")
    IN IF pattern.items = <<>>
       THEN add_error(st, path, <<"Pattern array is empty">>)
       ELSE LET used_keys == used_keys_of(pattern.items)
                s1 == pattern_rows_loop(st, path, pattern.items)
                s2 == undefined_keys_loop(s1, path, SetOrder(seed, used_keys), key)
            IN IF Raised(s2) THEN s2
               ELSE IF ~IsDict(key)
               THEN Raise(s2, <<"'", TypeName(key), "' object has no attribute 'keys'">>)
               ELSE unused_keys_loop(s2, path, key.keys, used_keys)

(***************************************************************************)
(* Rule sets, one per known recipe type.                                   *)
(***************************************************************************)
validate_mechanical_crafting(st, seed, path, recipe) ==
    LET s1 == IF ~Has(recipe, "key")
              THEN add_error(st, path, <<"Mechanical crafting missing 'key' field">>)
              ELSE IF ~IsDict(recipe.f.key)
              THEN add_error(st, path, <<"Field 'key' must be a JSON object">>)
              ELSE st
        s2 == IF ~Has(recipe, "pattern")
              THEN add_error(s1, path, <<"Mechanical crafting missing 'pattern' field">>)
              ELSE IF ~IsList(recipe.f.pattern)
              THEN add_error(s1, path, <<"Field 'pattern' must be a JSON array">>)
              ELSE validate_pattern(s1, seed, path, recipe)
        s3 == IF ~Has(recipe, "result")
              THEN add_error(s2, path, <<"Mechanical crafting missing 'result' field">>)
              ELSE validate_result(s2, path, recipe.f.result)
        s4 == IF Has(recipe, "acceptMirrored") /\ ~IsBool(recipe.f.acceptMirrored)
              THEN add_error(s3, path, <<"Field 'acceptMirrored' must be a boolean">>)
              ELSE s3
    IN IF Raised(s2) THEN s2 ELSE s4

\* validate_cutting and validate_mixing open with the same two checks
ingredients_and_results(st, path, recipe, name) ==
    LET s1 == IF ~Has(recipe, "ingredients")
              THEN add_error(st, path, <<name, " recipe missing 'ingredients' field">>)
              ELSE validate_ingredients(st, path, recipe.f.ingredients)
    IN IF ~Has(recipe, "results")
       THEN add_error(s1, path, <<name, " recipe missing 'results' field">>)
       ELSE IF ~IsList(recipe.f.results)
       THEN add_error(s1, path, <<"Field 'results' must be a JSON array">>)
       ELSE validate_results(s1, path, recipe.f.results)

validate_cutting(st, path, recipe) ==
    LET s2 == ingredients_and_results(st, path, recipe, "Cutting")
    IN IF Has(recipe, "processingTime") /\ ~IsNumber(recipe.f.processingTime)
       THEN add_error(s2, path, <<"Field 'processingTime' must be a number">>)
       ELSE s2

HeatRequirements == {Str("none"), Str("heated"), Str("superheated")}

validate_mixing(st, path, recipe) ==
    LET s2 == ingredients_and_results(st, path, recipe, "Mixing")
    IN IF Has(recipe, "heatRequirement") /\ recipe.f.heatRequirement \notin HeatRequirements
       THEN add_error(s2, path, <<"Invalid heatRequirement: ">> \o Repr(recipe.f.heatRequirement))
       ELSE s2

required_fields == <<"ingredient", "transitionalItem", "sequence", "results", "loops">>

RECURSIVE required_fields_loop(_, _, _, _)
required_fields_loop(st, path, recipe, fields) ==
    IF fields = <<>> THEN st
    ELSE required_fields_loop(
             IF ~Has(recipe, Head(fields))
             THEN add_error(st, path, <<"Sequenced assembly missing '", Head(fields), "' field">>)
             ELSE st,
             path, recipe, Tail(fields))

validate_sequenced_assembly(st, path, recipe) ==
    LET s1 == required_fields_loop(st, path, recipe, required_fields)
    IN IF Has(recipe, "sequence") /\ ~IsList(recipe.f.sequence)
       THEN add_error(s1, path, <<"Field 'sequence' must be a JSON array">>)
       ELSE s1

\* validate_filling, validate_emptying, validate_pressing, validate_deploying
presence_only(st, path, recipe, name) ==
    LET s1 == IF ~Has(recipe, "ingredients")
              THEN add_error(st, path, <<name, " recipe missing 'ingredients' field">>)
              ELSE st
    IN IF ~Has(recipe, "results")
       THEN add_error(s1, path, <<name, " recipe missing 'results' field">>)
       ELSE s1

validate_filling(st, path, recipe) == presence_only(st, path, recipe, "Filling")
validate_emptying(st, path, recipe) == presence_only(st, path, recipe, "Emptying")
validate_pressing(st, path, recipe) == presence_only(st, path, recipe, "Pressing")
validate_deploying(st, path, recipe) == presence_only(st, path, recipe, "Deploying")

validate_vanilla_crafting(st, path, recipe) ==
    IF ~Has(recipe, "result")
    THEN add_error(st, path, <<"Vanilla crafting missing 'result' field">>)
    ELSE st

(***************************************************************************)
(* Dispatch and the per-file handler.                                      *)
(***************************************************************************)
\* the dispatch table: recipe type -> rule set
validators ==
    [x \in {"create:mechanical_crafting", "create:cutting", "create:mixing",
            "create:sequenced_assembly", "create:filling", "create:emptying",
            "create:pressing", "create:deploying", "minecraft:crafting_shaped",
            "minecraft:crafting_shapeless"} |->
        CASE x = "create:mechanical_crafting" -> "validate_mechanical_crafting"
          [] x = "create:cutting" -> "validate_cutting"
          [] x = "create:mixing" -> "validate_mixing"
          [] x = "create:sequenced_assembly" -> "validate_sequenced_assembly"
          [] x = "create:filling" -> "validate_filling"
          [] x = "create:emptying" -> "validate_emptying"
          [] x = "create:pressing" -> "validate_pressing"
          [] x = "create:deploying" -> "validate_deploying"
          [] x = "minecraft:crafting_shaped" -> "validate_vanilla_crafting"
          [] x = "minecraft:crafting_shapeless" -> "validate_vanilla_crafting"]

\* validators.get needs the hash of its argument: a list or a mapping has none
Unhashable(v) == v.t \in {"list", "dict"}
\* validators.get(recipe_type): the rule set, "" for None
validators_get(recipe_type) ==
    IF recipe_type.t = "str" /\ "s" \in DOMAIN recipe_type /\ recipe_type.s \in DOMAIN validators
    THEN validators[recipe_type.s]
    ELSE ""

\* validator(str(relative_path), recipe)
call_validator(validator, st, seed, path, recipe) ==
    LET s0 == [st EXCEPT !.ruleset = validator]
    IN CASE validator = "validate_mechanical_crafting" ->
                validate_mechanical_crafting(s0, seed, path, recipe)
         [] validator = "validate_cutting" -> validate_cutting(s0, path, recipe)
         [] validator = "validate_mixing" -> validate_mixing(s0, path, recipe)
         [] validator = "validate_sequenced_assembly" ->
                validate_sequenced_assembly(s0, path, recipe)
         [] validator = "validate_filling" -> validate_filling(s0, path, recipe)
         [] validator = "validate_emptying" -> validate_emptying(s0, path, recipe)
         [] validator = "validate_pressing" -> validate_pressing(s0, path, recipe)
         [] validator = "validate_deploying" -> validate_deploying(s0, path, recipe)
         [] validator = "validate_vanilla_crafting" ->
                validate_vanilla_crafting(s0, path, recipe)

\* lines 55-75: look the type up and run its rule set, or warn
dispatch(st, seed, path, recipe) ==
    LET recipe_type == recipe.f.type
    IN IF Unhashable(recipe_type)
       THEN Raise(st, <<"unhashable type: '", TypeName(recipe_type), "'">>)
       ELSE IF validators_get(recipe_type) # ""
       THEN call_validator(validators_get(recipe_type), st, seed, path, recipe)
       ELSE add_warning(st, path, <<"Unknown recipe type: ">> \o Repr(recipe_type))

\* a missing 'type' is reported and the handler goes on without returning:
\* recipe['type'] then raises KeyError
CheckRecipeNoReturn(st, seed, path, recipe) ==
    IF ~IsDict(recipe)
    THEN add_error(st, path, <<"Root element is not a JSON object">>)
    ELSE IF ~Has(recipe, "type")
    THEN Raise(add_error(st, path, <<"Missing required field: 'type'">>), <<"'type'">>)
    ELSE dispatch(st, seed, path, recipe)

\* lines 46-75: the body of the try block once the file is parsed
check_recipe(st, seed, path, recipe) ==
    IF ~IsDict(recipe)
    THEN add_error(st, path, <<"Root element is not a JSON object">>)
    ELSE IF ~Has(recipe, "type")
    THEN add_error(st, path, <<"Missing required field: 'type'">>)
    ELSE dispatch(st, seed, path, recipe)

\* the exception is dropped without a diagnostic
ExceptPass(st, path) ==
    [st EXCEPT !.exc = NoExc]

\* lines 79-80: except Exception as e
except_Exception(st, path) ==
    [add_error(st, path, <<"Unexpected error: ">> \o st.exc) EXCEPT !.exc = NoExc]

\* the collections and the file counter after validate_recipe_file(file), from
\* the collections st; file.load is what open() and json.load() do for this file
validate_recipe_file(st, seed, file) ==
    LET path == file.path
        s0 == [st EXCEPT !.validated_files = @ + 1,
                         !.stdout = Append(@, <<"Validating: ", path>>),
                         !.ruleset = "",
                         !.exc = NoExc]
    IN CASE file.load.kind = "JSONDecodeError" ->
                add_error(s0, path, <<"Failed to parse JSON: ">> \o file.load.msg)
         [] file.load.kind = "OSError" ->
                except_Exception(Raise(s0, file.load.msg), path)
         [] file.load.kind = "ok" ->
                LET s1 == check_recipe(s0, seed, path, file.load.value)
                IN IF Raised(s1) THEN except_Exception(s1, path) ELSE s1

(***************************************************************************)
(* Report and result.                                                      *)
(***************************************************************************)
RECURSIVE print_all(_, _)
\* for line in lines: print(line)
print_all(out, lines) ==
    IF lines = <<>> THEN out ELSE print_all(Append(out, Head(lines)), Tail(lines))

\* the cross and check marks that open the two summary lines are left out
print_results(st) ==
    LET o1 == IF st.warnings # <<>>
              THEN print_all(Append(st.stdout, <<"\n=== Warnings ===">>), st.warnings)
              ELSE st.stdout
        o2 == IF st.errors # <<>>
              THEN Append(print_all(Append(o1, <<"\n=== Errors ===">>), st.errors),
                          <<"\nFound ", ToString(Len(st.errors)), " error(s) in recipes">>)
              ELSE Append(Append(o1, <<"\n=== Validation Complete ===">>),
                          <<"All ", ToString(st.validated_files), " recipes are valid!">>)
    IN [st EXCEPT !.stdout = o2]

\* success is reported whatever was collected
ExitAlwaysZero(ok) == 0

\* exit(0 if success else 1)
main_exit(ok) == IF ok THEN 0 ELSE 1

recipes_path == "src/main/resources/data/createimmersivetacz/recipes"

(***************************************************************************)
(* The state machine.                                                      *)
(***************************************************************************)
\* self, as the handlers receive it
Self == [errors |-> errors, warnings |-> warnings, validated_files |-> validated_files,
         stdout |-> stdout, exc |-> NoExc, ruleset |-> ""]

NoRun == [stdout |-> <<>>, exit_code |-> -1]

\* RecipeValidator.__init__ at the start of main(), in a new process
Constructed ==
    /\ pc = "start"
    /\ recipe_files = <<>>
    /\ idx = 0
    /\ errors = <<>>
    /\ warnings = <<>>
    /\ validated_files = 0
    /\ stdout = <<>>
    /\ success = FALSE
    /\ exit_code = -1
    /\ mark = [e |-> 0, w |-> 0]
    /\ dispatched = ""

\* validate_all when the recipes directory does not exist
ValidateAllMissingRoot ==
    /\ pc = "start"
    /\ ~fs.exists
    /\ stdout' = Append(stdout, <<"=== Validating Recipes ===">>)
    /\ errors' = add_error(Self, "Global",
                           <<"Recipes directory does not exist: ", recipes_path>>).errors
    /\ success' = FALSE
    /\ pc' = "returned"
    /\ UNCHANGED <<fs, hashseed, recipe_files, idx, warnings, validated_files, exit_code,
                   mark, dispatched, run, prev>>

\* validate_all up to the for loop: rglob lists the directory
ValidateAllListFiles ==
    /\ pc = "start"
    /\ fs.exists
    /\ recipe_files' = fs.files
    /\ stdout' = Append(Append(stdout, <<"=== Validating Recipes ===">>),
                        <<"Found ", ToString(Len(fs.files)), " recipe files">>)
    /\ idx' = 1
    /\ pc' = "loop"
    /\ UNCHANGED <<fs, hashseed, errors, warnings, validated_files, success, exit_code,
                   mark, dispatched, run, prev>>

\* one iteration of the for loop: validate_recipe_file(recipe_file)
ValidateRecipeFile ==
    /\ pc = "loop"
    /\ idx <= Len(recipe_files)
    /\ LET s == validate_recipe_file(Self, hashseed, recipe_files[idx])
       IN /\ errors' = s.errors
          /\ warnings' = s.warnings
          /\ validated_files' = s.validated_files
          /\ stdout' = s.stdout
          /\ dispatched' = s.ruleset
    /\ mark' = [e |-> Len(errors), w |-> Len(warnings)]
    /\ idx' = idx + 1
    /\ UNCHANGED <<fs, hashseed, pc, recipe_files, success, exit_code, run, prev>>

\* the end of validate_all: print_results() and the return value
PrintResultsAndReturn ==
    /\ pc = "loop"
    /\ idx > Len(recipe_files)
    /\ stdout' = print_results(Self).stdout
    /\ success' = (Len(errors) = 0)
    /\ pc' = "returned"
    /\ UNCHANGED <<fs, hashseed, recipe_files, idx, errors, warnings, validated_files,
                   exit_code, mark, dispatched, run, prev>>

\* main() after validate_all returned
Exit ==
    /\ pc = "returned"
    /\ exit_code' = main_exit(success)
    /\ pc' = "exited"
    /\ UNCHANGED <<fs, hashseed, recipe_files, idx, errors, warnings, validated_files,
                   stdout, success, mark, dispatched, run, prev>>

(***************************************************************************)
(* Inputs.                                                                 *)
(***************************************************************************)
MaxFiles == 2      \* files in a directory, in the specification of whole runs
MaxRows == 2       \* rows of a pattern
MaxRowLen == 1     \* characters of a pattern row

SeqsUpTo(S, n) == UNION {[1..k -> S] : k \in 0..n}

\* the characters a pattern row is made of; " " is the blank cell
Cells == {" ", "A", "B"}
Symbols == Cells \ {" "}
\* a hash seed is modelled by the iteration order it gives to sets of symbols
Seeds == {seed \in [1..Cardinality(Symbols) -> Symbols] :
              \A i, j \in DOMAIN seed : i # j => seed[i] # seed[j]}

Ok(v) == [kind |-> "ok", value |-> v]
ReadFails == [kind |-> "OSError", msg |-> <<"[Errno 13] Permission denied">>]
ParseFails == [kind |-> "JSONDecodeError",
               msg |-> <<"Expecting value: line 1 column 1 (char 0)">>]

FileName(i) == "recipe" \o ToString(i) \o ".json"
\* the files rglob yields, in the order it yields them
MkFiles(loads) == [i \in 1..Len(loads) |-> [path |-> FileName(i), load |-> loads[i]]]

Item == Obj([item |-> Str("minecraft:iron_ingot")])
Mech == Str("create:mechanical_crafting")
KnownTypes == {Str(x) : x \in DOMAIN validators}

\* documents for whole runs: every way a file can fail, and clean ones
RunLoads ==
    { ReadFails, ParseFails,
      Ok(List(<<>>)),
      Ok(Obj([result |-> Item])),
      Ok(Obj([type |-> Str("create:unknown")])),
      Ok(Obj([type |-> List(<<>>)])),
      Ok(Obj([type |-> Str("minecraft:crafting_shaped"), result |-> Item])),
      Ok(Obj([type |-> Str("minecraft:crafting_shapeless")])),
      Ok(Obj([type |-> Str("create:cutting"), ingredients |-> Item, results |-> List(<<>>)])),
      Ok(Obj([type |-> Str("create:mixing"), ingredients |-> Item, results |-> List(<<>>),
              heatRequirement |-> Str("molten")])),
      Ok(Obj([type |-> Mech, key |-> Num(1), pattern |-> List(<<Chars(<<"A">>)>>),
              result |-> Item])),
      Ok(Obj([type |-> Mech, key |-> KeyMap(<< <<"A">> >>),
              pattern |-> List(<<Chars(<<"A">>)>>), result |-> Item])),
      Ok(Obj([type |-> Mech, pattern |-> List(<<Chars(<<"A", "B">>)>>), result |-> Item])) }

RunDirs ==
    {[exists |-> FALSE, files |-> <<>>]}
    \cup {[exists |-> TRUE, files |-> MkFiles(loads)] : loads \in SeqsUpTo(RunLoads, MaxFiles)}

\* values of the 'type' field
TypeValues ==
    KnownTypes \cup
    { Absent, Str("create:unknown"), Str(""), Num(0), Num(1), Bool(TRUE), Bool(FALSE), Null,
      List(<<>>), List(<<Str("create:mixing")>>), Obj([item |-> Null]) }
\* the rest of a document whose type is being varied
Bodies ==
    { [result |-> Item],
      [ingredients |-> Item, results |-> List(<<Item>>)],
      [ingredients |-> List(<<>>), results |-> List(<<>>)],
      [key |-> KeyMap(<< <<"A">> >>), pattern |-> List(<<Chars(<<"B">>)>>)],
      [heatRequirement |-> Str("molten"), processingTime |-> Str("fast")],
      [loops |-> Num(0)] }
DispatchDocs == {Obj([type |-> tv] @@ body) : tv \in TypeValues, body \in Bodies}

\* mechanical crafting documents: patterns against keys
RowValues == {Chars(cs) : cs \in SeqsUpTo(Cells, MaxRowLen)} \cup {Num(1)}
PatternValues == {List(rows) : rows \in SeqsUpTo(RowValues, MaxRows)}
KeyValues ==
    { Absent, KeyMap(<<>>), KeyMap(<< <<"A">> >>), KeyMap(<< <<"A">>, <<"B">> >>),
      KeyMap(<< <<"B">>, <<"A", "B">> >>), KeyMap(<< <<" ">> >>),
      Num(1), Null, Bool(TRUE), Chars(<<"A">>), List(<<Chars(<<"A">>)>>) }
PatternDocs ==
    {Obj([type |-> Mech, key |-> k, pattern |-> p, result |-> Item]) :
        k \in KeyValues, p \in PatternValues}

\* documents of every known type: each field absent, well-shaped or ill-shaped
MechFieldDocs ==
    {Obj([type |-> Mech, key |-> k, pattern |-> p, result |-> r, acceptMirrored |-> m]) :
        k \in {Absent, KeyMap(<< <<"A">> >>), Num(1)},
        p \in {Absent, List(<<Chars(<<"A">>)>>), List(<<>>), Num(1)},
        r \in {Absent, Item, Num(1)},
        m \in {Absent, Bool(TRUE), Num(1)}}
IngredientsValues == {Absent, List(<<>>), Item, List(<<Num(1)>>), Num(1)}
ResultsValues == {Absent, List(<<>>), List(<<Item>>), Num(1)}
CuttingFieldDocs ==
    {Obj([type |-> Str("create:cutting"), ingredients |-> i, results |-> r,
          processingTime |-> pt]) :
        i \in IngredientsValues, r \in ResultsValues, pt \in {Absent, Num(1), Str("fast")}}
MixingFieldDocs ==
    {Obj([type |-> Str("create:mixing"), ingredients |-> i, results |-> r,
          heatRequirement |-> h]) :
        i \in IngredientsValues, r \in ResultsValues,
        h \in {Absent, Str("heated"), Str("molten"), Null}}
SequencedFieldDocs ==
    {Obj([type |-> Str("create:sequenced_assembly"), ingredient |-> i, transitionalItem |-> ti,
          sequence |-> sq, results |-> r, loops |-> l]) :
        i \in {Absent, Item}, ti \in {Absent, Item},
        sq \in {Absent, List(<<>>), Num(1)}, r \in {Absent, List(<<Item>>), Num(1)},
        l \in {Absent, Num(1)}}
PresenceFieldDocs ==
    {Obj([type |-> Str(ty), ingredients |-> i, results |-> r]) :
        ty \in {"create:filling", "create:emptying", "create:pressing", "create:deploying"},
        i \in {Absent, Item, Num(1)}, r \in {Absent, List(<<Item>>), Num(1)}}
VanillaFieldDocs ==
    {Obj([type |-> Str(ty), result |-> r]) :
        ty \in {"minecraft:crafting_shaped", "minecraft:crafting_shapeless"},
        r \in {Absent, Item, Num(1)}}
FieldDocs == MechFieldDocs \cup CuttingFieldDocs \cup MixingFieldDocs
             \cup SequencedFieldDocs \cup PresenceFieldDocs \cup VanillaFieldDocs

\* result mappings, inside documents that produce no other diagnostic
CountValues == {Absent, Num(-1), Num(0), Num(1), Str("2"), Bool(TRUE), Bool(FALSE), Null}
ResultMappings ==
    {Obj([item |-> i, fluid |-> f, count |-> c, amount |-> a]) :
        i \in {Absent, Str("x")}, f \in {Absent, Str("minecraft:water")},
        c \in CountValues, a \in CountValues}
ResultDocs ==
    {Obj([type |-> Mech, key |-> KeyMap(<<>>), pattern |-> List(<<Chars(<<>>)>>),
          result |-> r]) : r \in ResultMappings}
    \cup {Obj([type |-> Str("create:cutting"), ingredients |-> Item,
               results |-> List(<<r>>)]) : r \in ResultMappings}

DocUniverse == DispatchDocs \cup PatternDocs \cup FieldDocs \cup ResultDocs

OneFileDirs ==
    {[exists |-> FALSE, files |-> <<>>]}
    \cup {[exists |-> TRUE, files |-> MkFiles(<<Ok(d)>>)] : d \in DocUniverse}

\* the program is started a second time on the same directory
Rerun ==
    /\ pc = "exited"
    /\ run = 1
    /\ prev' = [stdout |-> stdout, exit_code |-> exit_code]
    /\ run' = 2
    /\ hashseed' \in Seeds
    /\ pc' = "start"
    /\ recipe_files' = <<>>
    /\ idx' = 0
    /\ errors' = <<>>
    /\ warnings' = <<>>
    /\ validated_files' = 0
    /\ stdout' = <<>>
    /\ success' = FALSE
    /\ exit_code' = -1
    /\ mark' = [e |-> 0, w |-> 0]
    /\ dispatched' = ""
    /\ UNCHANGED fs

(***************************************************************************)
(* Specifications.                                                         *)
(***************************************************************************)
\* whole runs over directories of up to MaxFiles files
Init ==
    /\ fs \in RunDirs
    /\ hashseed \in Seeds
    /\ Constructed
    /\ run = 1
    /\ prev = NoRun

Next ==
    \/ ValidateAllMissingRoot
    \/ ValidateAllListFiles
    \/ ValidateRecipeFile
    \/ PrintResultsAndReturn
    \/ Exit

Spec == Init /\ [][Next]_vars

\* runs over one document drawn from DocUniverse
InitDocs ==
    /\ fs \in OneFileDirs
    /\ hashseed \in Seeds
    /\ Constructed
    /\ run = 1
    /\ prev = NoRun

SpecDocs == InitDocs /\ [][Next]_vars

\* the program run twice on the same directory
NextTwoRuns == Next \/ Rerun

SpecTwoRuns == Init /\ [][NextTwoRuns]_vars

(***************************************************************************)
(* Vocabulary of the properties.                                           *)
(***************************************************************************)
RECURSIVE Flatten(_)
\* the text of a line: its tokens joined
Flatten(tokens) == IF tokens = <<>> THEN "" ELSE Head(tokens) \o Flatten(Tail(tokens))
Texts(lines) == [i \in DOMAIN lines |-> Flatten(lines[i])]
Occurrences(texts, text) == Cardinality({i \in DOMAIN texts : texts[i] = text})
IsPrefix(a, b) == Len(a) <= Len(b) /\ SubSeq(b, 1, Len(a)) = a
Suffix(a, n) == SubSeq(a, n + 1, Len(a))

\* at least one validate_recipe_file has completed; the last one was for LastFile
AfterFile == idx > 1
LastFile == recipe_files[idx - 1]
LastPath == LastFile.path
Parsed == AfterFile /\ LastFile.load.kind = "ok"
LastDoc == LastFile.load.value
\* the diagnostics the last validate_recipe_file appended
FileErrors == Texts(Suffix(errors, mark.e))
FileWarnings == Texts(Suffix(warnings, mark.w))
ErrorText(path, message) == "[ERROR] " \o path \o ": " \o message
WarningText(path, message) == "[WARNING] " \o path \o ": " \o message

(***************************************************************************)
(* C1. The run succeeds (validate_all returns True, exit code 0) exactly   *)
(* when no Error was collected, however many Warnings were; otherwise, the *)
(* root directory missing or one Error or more, the exit code is 1.        *)
(***************************************************************************)
C1_SuccessIffNoErrors ==
    /\ pc \in {"returned", "exited"} => (success <=> Len(errors) = 0)
    /\ pc = "exited" =>
          /\ exit_code \in {0, 1}
          /\ exit_code = 0 <=> Len(errors) = 0
          /\ ~fs.exists => exit_code = 1

C1_Witness ==
    /\ pc = "exited"
    /\ exit_code = 0
    /\ Len(warnings) > 0
    /\ validated_files = MaxFiles

(***************************************************************************)
(* C2. When the root exists every file found is processed before the       *)
(* report, whatever happened in earlier files: the report is only reached  *)
(* with validated_files equal to the number of files found, and a file     *)
(* that cannot be read, cannot be parsed or raises during its checks       *)
(* contributes exactly one Error for that failure.                         *)
(***************************************************************************)
\* the documents of the inputs whose checks raise: an unhashable type, or a
\* non-empty pattern checked against a 'key' that is not a mapping
ChecksRaise(doc) ==
    /\ IsDict(doc)
    /\ Has(doc, "type")
    /\ \/ doc.f.type.t \in {"list", "dict"}
       \/ /\ doc.f.type = Mech
          /\ Has(doc, "key") /\ ~IsDict(doc.f.key)
          /\ Has(doc, "pattern") /\ IsList(doc.f.pattern) /\ doc.f.pattern.items # <<>>
UnexpectedErrors ==
    {i \in (mark.e + 1)..Len(errors) : errors[i][4] = "Unexpected error: "}

C2_EveryFileProcessed ==
    /\ pc = "loop" => validated_files = idx - 1
    /\ (pc \in {"returned", "exited"} /\ fs.exists) =>
          /\ validated_files = Len(fs.files)
          /\ idx = Len(fs.files) + 1
    /\ AfterFile =>
          /\ LastFile.load.kind = "JSONDecodeError" =>
                FileErrors = <<ErrorText(LastPath, "Failed to parse JSON: "
                                                   \o Flatten(LastFile.load.msg))>>
          /\ LastFile.load.kind = "OSError" =>
                FileErrors = <<ErrorText(LastPath, "Unexpected error: "
                                                   \o Flatten(LastFile.load.msg))>>
          /\ (LastFile.load.kind = "ok" /\ ChecksRaise(LastDoc)) =>
                /\ Cardinality(UnexpectedErrors) = 1
                /\ Len(errors) \in UnexpectedErrors

C2_Witness ==
    /\ pc = "exited"
    /\ Len(fs.files) = MaxFiles
    /\ fs.files[1].load.kind \in {"JSONDecodeError", "OSError"}
    /\ Parsed
    /\ ChecksRaise(LastDoc)
    /\ validated_files = MaxFiles

(***************************************************************************)
(* C3. When the root directory does not exist no file is processed,        *)
(* exactly one global Error is produced, that Error is reported in the     *)
(* output, and the exit code is 1.                                         *)
(***************************************************************************)
C3_MissingRootReported ==
    (pc = "exited" /\ ~fs.exists) =>
        /\ validated_files = 0
        /\ Len(errors) = 1
        /\ errors[1][2] = "Global"
        /\ \E i \in DOMAIN stdout : stdout[i] = errors[1]
        /\ exit_code = 1

(***************************************************************************)
(* C4. A top-level mapping without a 'type' field yields exactly one       *)
(* Error, "Missing required field: 'type'", no Warning, and no rule set is *)
(* invoked; so every document that reaches a rule set is a mapping that    *)
(* contains 'type'.                                                        *)
(***************************************************************************)
C4_MissingType ==
    Parsed =>
        /\ (IsDict(LastDoc) /\ ~Has(LastDoc, "type")) =>
              /\ FileErrors = <<ErrorText(LastPath, "Missing required field: 'type'")>>
              /\ FileWarnings = <<>>
              /\ dispatched = ""
        /\ dispatched # "" => (IsDict(LastDoc) /\ Has(LastDoc, "type"))

C4_Witness ==
    /\ Parsed
    /\ IsDict(LastDoc)
    /\ ~Has(LastDoc, "type")
    /\ Has(LastDoc, "ingredients")
    /\ Len(errors) = 1

(***************************************************************************)
(* C5. A top-level mapping whose 'type' is not one of the ten known type   *)
(* strings, whatever JSON value it is, yields exactly one Warning,         *)
(* "Unknown recipe type", no Error, and no further check runs.             *)
(***************************************************************************)
C5_UnknownType ==
    (Parsed /\ IsDict(LastDoc) /\ Has(LastDoc, "type") /\ LastDoc.f.type \notin KnownTypes) =>
        /\ FileWarnings = <<WarningText(LastPath, "Unknown recipe type: "
                                                  \o Flatten(Repr(LastDoc.f.type)))>>
        /\ FileErrors = <<>>
        /\ dispatched = ""

(***************************************************************************)
(* C6. For a mechanical-crafting document whose pattern is a non-empty     *)
(* sequence: every non-blank character of a string row is a key of 'key'   *)
(* or gets exactly one Error citing it; every single-character key that    *)
(* appears in no row gets exactly one Warning citing it; defined and used  *)
(* characters get neither.  Whatever the presence or shape of 'key'.       *)
(***************************************************************************)
IsPatternDoc(doc) ==
    /\ IsDict(doc)
    /\ Has(doc, "type") /\ doc.f.type = Mech
    /\ Has(doc, "pattern") /\ IsList(doc.f.pattern) /\ doc.f.pattern.items # <<>>
\* the non-blank characters of the string rows
PatternChars(doc) ==
    UNION {RowChars(doc.f.pattern.items[i]) :
              i \in {j \in DOMAIN doc.f.pattern.items : IsStr(doc.f.pattern.items[j])}}
\* the single-character keys of the 'key' mapping, none if 'key' is no mapping
SingleCharKeys(doc) ==
    IF Has(doc, "key") /\ IsDict(doc.f.key)
    THEN {doc.f.key.keys[i][1] : i \in {j \in DOMAIN doc.f.key.keys : Len(doc.f.key.keys[j]) = 1}}
    ELSE {}
UndefinedKeyText(path, c) ==
    ErrorText(path, "Pattern uses key '" \o c \o "' but it's not defined in 'key' object")
UnusedKeyText(path, k) ==
    WarningText(path, "Key '" \o k \o "' is defined but never used in pattern")

C6_PatternKeyCrossCheck ==
    (Parsed /\ IsPatternDoc(LastDoc)) =>
        /\ \A c \in PatternChars(LastDoc) :
              Occurrences(FileErrors, UndefinedKeyText(LastPath, c))
                  = IF c \in SingleCharKeys(LastDoc) THEN 0 ELSE 1
        /\ \A k \in SingleCharKeys(LastDoc) :
              Occurrences(FileWarnings, UnusedKeyText(LastPath, k))
                  = IF k \in PatternChars(LastDoc) THEN 0 ELSE 1

(***************************************************************************)
(* C7. Two runs over the same unchanged directory print the same lines in  *)
(* the same order and exit with the same code.                             *)
(***************************************************************************)
C7_RunsAgree ==
    (run = 2 /\ pc = "exited") =>
        /\ stdout = prev.stdout
        /\ exit_code = prev.exit_code

(***************************************************************************)
(* C8. For a document of a known type, every field required for that type  *)
(* that is absent gets an Error naming it, whatever the presence, shape or *)
(* content of the other fields.                                            *)
(***************************************************************************)
RequiredFields(type) ==
    CASE type = "create:mechanical_crafting" -> {"key", "pattern", "result"}
      [] type \in {"create:cutting", "create:mixing", "create:filling", "create:emptying",
                   "create:pressing", "create:deploying"} -> {"ingredients", "results"}
      [] type = "create:sequenced_assembly" ->
            {"ingredient", "transitionalItem", "sequence", "results", "loops"}
      [] type \in {"minecraft:crafting_shaped", "minecraft:crafting_shapeless"} -> {"result"}
MissingFieldText(path, type, field) ==
    ErrorText(path,
        CASE type = "create:mechanical_crafting" -> "Mechanical crafting missing '"
          [] type = "create:cutting" -> "Cutting recipe missing '"
          [] type = "create:mixing" -> "Mixing recipe missing '"
          [] type = "create:sequenced_assembly" -> "Sequenced assembly missing '"
          [] type = "create:filling" -> "Filling recipe missing '"
          [] type = "create:emptying" -> "Emptying recipe missing '"
          [] type = "create:pressing" -> "Pressing recipe missing '"
          [] type = "create:deploying" -> "Deploying recipe missing '"
          [] type \in {"minecraft:crafting_shaped", "minecraft:crafting_shapeless"} ->
                "Vanilla crafting missing '")
    \o field \o "' field"

C8_RequiredFieldMissing ==
    (Parsed /\ IsDict(LastDoc) /\ Has(LastDoc, "type") /\ LastDoc.f.type \in KnownTypes) =>
        \A field \in RequiredFields(LastDoc.f.type.s) :
            ~Has(LastDoc, field) =>
                Occurrences(FileErrors, MissingFieldText(LastPath, LastDoc.f.type.s, field)) >= 1

(***************************************************************************)
(* C9. A result mapping yields as many Errors as: 1 if it has neither      *)
(* 'item' nor 'fluid', plus 1 if 'count' is present, numeric and <= 0,     *)
(* plus 1 if 'amount' is present, numeric and <= 0; a positive or          *)
(* non-numeric (string, boolean, null) count or amount yields none.        *)
(***************************************************************************)
\* documents in which validate_result is the only check that can report:
\* the result of a mechanical crafting recipe with an empty key and a blank
\* pattern, or the single result of a cutting recipe with a proper ingredient
ResultUnderTest(doc) ==
    IF doc.f.type = Mech THEN doc.f.result ELSE doc.f.results.items[1]
IsResultDoc(doc) ==
    /\ IsDict(doc) /\ Has(doc, "type")
    /\ \/ /\ doc.f.type = Mech
          /\ Has(doc, "key") /\ doc.f.key = KeyMap(<<>>)
          /\ Has(doc, "pattern") /\ doc.f.pattern = List(<<Chars(<<>>)>>)
          /\ Has(doc, "result") /\ IsDict(doc.f.result)
          /\ ~Has(doc, "acceptMirrored")
       \/ /\ doc.f.type = Str("create:cutting")
          /\ Has(doc, "ingredients") /\ doc.f.ingredients = Item
          /\ Has(doc, "results") /\ IsList(doc.f.results)
          /\ Len(doc.f.results.items) = 1 /\ IsDict(doc.f.results.items[1])
          /\ ~Has(doc, "processingTime")
\* a JSON number: a boolean, a string and null are not numeric
NonPositiveNumber(m, field) ==
    Has(m, field) /\ m.f[field].t = "num" /\ m.f[field].n <= 0
ExpectedResultErrors(m) ==
    (IF ~Has(m, "item") /\ ~Has(m, "fluid") THEN 1 ELSE 0)
    + (IF NonPositiveNumber(m, "count") THEN 1 ELSE 0)
    + (IF NonPositiveNumber(m, "amount") THEN 1 ELSE 0)

C9_ResultErrors ==
    (Parsed /\ IsResultDoc(LastDoc)) =>
        /\ Len(FileErrors) = ExpectedResultErrors(ResultUnderTest(LastDoc))
        /\ NonPositiveNumber(ResultUnderTest(LastDoc), "count") =>
              Occurrences(FileErrors,
                  ErrorText(LastPath, "Result count must be positive, got: "
                      \o ToString(ResultUnderTest(LastDoc).f.count.n))) = 1

(***************************************************************************)
(* C10. Processing a file only appends to errors and warnings and adds one *)
(* to the file counter; what was recorded for earlier files stays as a     *)
(* prefix, and what is appended is what the same file yields in a          *)
(* validator that has processed nothing.                                   *)
(***************************************************************************)
FreshSelf == [errors |-> <<>>, warnings |-> <<>>, validated_files |-> 0,
              stdout |-> <<>>, exc |-> NoExc, ruleset |-> ""]
FileStep == pc = "loop" /\ idx <= Len(recipe_files) /\ idx' = idx + 1

C10_PerFileIsolation ==
    [][FileStep =>
          LET alone == validate_recipe_file(FreshSelf, hashseed, recipe_files[idx])
          IN /\ validated_files' = validated_files + 1
             /\ IsPrefix(errors, errors')
             /\ IsPrefix(warnings, warnings')
             /\ Suffix(errors', Len(errors)) = alone.errors
             /\ Suffix(warnings', Len(warnings)) = alone.warnings
             /\ UNCHANGED <<fs, hashseed, recipe_files>>]_vars

C10_Witness ==
    /\ pc = "loop"
    /\ idx = 3
    /\ mark.e > 0
    /\ Len(errors) > mark.e
    /\ mark.w > 0
    /\ Len(warnings) > mark.w

====
